---- MODULE Spec2Model ----
(***************************************************************************)
(* Model of pack_to_single_html.py: one pass over the <img> elements of an *)
(* HTML document that replaces local image references by data: URIs.       *)
(*                                                                         *)
(* A string is a sequence of one-character strings, so that startswith,    *)
(* os.path.join, os.path.normpath, the MIME guess and base64 are computed  *)
(* character by character.  A document is represented by the sequence of   *)
(* its <img> elements in document order; an element is a function from     *)
(* the attribute names it carries ("src", "data-full") to their values.    *)
(* The sample attribute values hold no character that HTML serialisation   *)
(* escapes, so str(soup) followed by a parse returns the same elements.    *)
(***************************************************************************)
EXTENDS Integers, Sequences, FiniteSets, TLC

VARIABLES pc, argc, inExists, html, soup, i, changed, skipped, warnings,
          outFile, exitCode, run

vars == <<pc, argc, inExists, html, soup, i, changed, skipped, warnings,
          outFile, exitCode, run>>

(* ------------------------------ bounds -------------------------------- *)

\* largest number of <img> elements in an input document
MaxImgs == 2

(* ------------------------- string primitives -------------------------- *)

\* str.startswith(prefix)
StartsWith(s, p) == Len(s) >= Len(p) /\ SubSeq(s, 1, Len(p)) = p

S_http == <<"h","t","t","p",":","/","/">>
S_https == <<"h","t","t","p","s",":","/","/">>
S_data == <<"d","a","t","a",":">>

\* line 49: not src or src.startswith("data:")
IsExcluded(src) == src = <<>> \/ StartsWith(src, S_data)

\* line 51: src.startswith("http://") or src.startswith("https://")
IsRemote(src) == StartsWith(src, S_http) \/ StartsWith(src, S_https)

\* line 69: data_full and not data_full.startswith(("http://","https://","data:"))
IsLocalFull(v) ==
    /\ v # <<>>
    /\ ~ (StartsWith(v, S_http) \/ StartsWith(v, S_https) \/ StartsWith(v, S_data))

(* ------------------------------- paths -------------------------------- *)

\* str.split("/"): the components between slashes, empty ones included
RECURSIVE SplitSlash(_, _)
SplitSlash(s, cur) ==
    IF s = <<>> THEN <<cur>>
    ELSE IF Head(s) = "/" THEN <<cur>> \o SplitSlash(Tail(s), <<>>)
    ELSE SplitSlash(Tail(s), Append(cur, Head(s)))

\* "/".join(comps)
RECURSIVE JoinSlash(_)
JoinSlash(comps) ==
    IF comps = <<>> THEN <<>>
    ELSE IF Len(comps) = 1 THEN comps[1]
    ELSE comps[1] \o <<"/">> \o JoinSlash(Tail(comps))

DotDot == <<".", ".">>

\* the loop of posixpath.normpath over the components
RECURSIVE NormComps(_, _, _)
NormComps(comps, new, initial) ==
    IF comps = <<>> THEN new
    ELSE LET c == Head(comps) IN
         IF c = <<>> \/ c = <<".">> THEN NormComps(Tail(comps), new, initial)
         ELSE IF \/ c # DotDot
                 \/ (initial = 0 /\ new = <<>>)
                 \/ (new # <<>> /\ new[Len(new)] = DotDot)
              THEN NormComps(Tail(comps), Append(new, c), initial)
         ELSE IF new # <<>>
              THEN NormComps(Tail(comps), SubSeq(new, 1, Len(new) - 1), initial)
         ELSE NormComps(Tail(comps), new, initial)

\* os.path.normpath
normpath(path) ==
    IF path = <<>> THEN <<".">>
    ELSE LET initial == IF ~ StartsWith(path, <<"/">>) THEN 0
                        ELSE IF StartsWith(path, <<"/","/">>)
                                /\ ~ StartsWith(path, <<"/","/","/">>) THEN 2
                        ELSE 1
             body == JoinSlash(NormComps(SplitSlash(path, <<>>), <<>>, initial))
             res == [k \in 1..initial |-> "/"] \o body
         IN IF res = <<>> THEN <<".">> ELSE res

\* os.path.join(a, b)
join(a, b) ==
    IF StartsWith(b, <<"/">>) THEN b
    ELSE IF a = <<>> \/ a[Len(a)] = "/" THEN a \o b
    ELSE a \o <<"/">> \o b

\* line 41: os.path.dirname(os.path.abspath(in_path)), the page lives in /s
base_dir == <<"/","s">>

\* lines 55 and 70: os.path.normpath(os.path.join(base_dir, ref))
Resolve(ref) == normpath(join(base_dir, ref))

(* ----------------------------- file system ---------------------------- *)

\* The directory of the page: three image files, one file without an
\* extension, and a directory (it exists, and opening it for reading raises).
Disk ==
    (<<"/","s","/","a",".","p","n","g">> :> [kind |-> "file", bytes |-> <<137, 80, 78>>])
 @@ (<<"/","s","/","b",".","j","p","g">> :> [kind |-> "file", bytes |-> <<255, 216>>])
 @@ (<<"/","s","/","c">> :> [kind |-> "file", bytes |-> <<0>>])
 @@ (<<"/","s","/","f",".","g","i","f">> :> [kind |-> "file", bytes |-> <<71, 73, 70, 56>>])
 @@ (<<"/","s","/","d">> :> [kind |-> "dir", bytes |-> <<>>])

\* lines 56 and 71: os.path.exists(path)
Exists(path) == path \in DOMAIN Disk

\* lines 20-21: open(path, "rb") and f.read() succeed on a regular file
CanRead(path) == Exists(path) /\ Disk[path].kind = "file"

\* line 21: b = f.read()
ReadBytes(path) == Disk[path].bytes

(* -------------------------------- MIME -------------------------------- *)

\* str.rfind(ch): the last index of ch in s, 0 when there is none
RECURSIVE RFind(_, _)
RFind(s, ch) ==
    IF s = <<>> THEN 0
    ELSE IF s[Len(s)] = ch THEN Len(s)
    ELSE RFind(SubSeq(s, 1, Len(s) - 1), ch)

\* posixpath.splitext(path)[1]: the extension, dot included, of the last
\* component; the leading dots of that component start no extension
SplitExt(path) ==
    LET sep == RFind(path, "/")
        dot == RFind(path, ".")
    IN  IF dot > sep /\ \E k \in (sep + 1)..(dot - 1) : path[k] # "."
        THEN SubSeq(path, dot, Len(path))
        ELSE <<>>

M_png == <<"i","m","a","g","e","/","p","n","g">>
M_jpeg == <<"i","m","a","g","e","/","j","p","e","g">>
M_gif == <<"i","m","a","g","e","/","g","i","f">>
M_webp == <<"i","m","a","g","e","/","w","e","b","p">>
M_svg == <<"i","m","a","g","e","/","s","v","g","+","x","m","l">>
M_octet == <<"a","p","p","l","i","c","a","t","i","o","n","/","o","c","t","e","t","-","s","t","r","e","a","m">>

\* lines 16-19: mimetypes.guess_type(path)[0], or application/octet-stream
GuessMime(path) ==
    LET ext == SplitExt(path) IN
    IF ext = <<".","p","n","g">> THEN M_png
    ELSE IF ext = <<".","j","p","g">> \/ ext = <<".","j","p","e","g">> THEN M_jpeg
    ELSE IF ext = <<".","g","i","f">> THEN M_gif
    ELSE IF ext = <<".","w","e","b","p">> THEN M_webp
    ELSE IF ext = <<".","s","v","g">> THEN M_svg
    ELSE M_octet

(* ------------------------------- base64 ------------------------------- *)

B64Alphabet ==
    <<"A","B","C","D","E","F","G","H","I","J","K","L","M","N","O","P">>
    \o <<"Q","R","S","T","U","V","W","X","Y","Z","a","b","c","d","e","f">>
    \o <<"g","h","i","j","k","l","m","n","o","p","q","r","s","t","u","v">>
    \o <<"w","x","y","z","0","1","2","3","4","5","6","7","8","9","+","/">>

B64Char(n) == B64Alphabet[n + 1]

B64Index(ch) == CHOOSE n \in 0..63 : B64Alphabet[n + 1] = ch

\* b64encode with a last group of one byte padded with a single "="
RECURSIVE b64encode_M(_)
b64encode_M(b) ==
    IF b = <<>> THEN <<>>
    ELSE IF Len(b) = 1 THEN
        <<B64Char(b[1] \div 4), B64Char((b[1] % 4) * 16), "=">>
    ELSE IF Len(b) = 2 THEN
        <<B64Char(b[1] \div 4),
          B64Char((b[1] % 4) * 16 + b[2] \div 16),
          B64Char((b[2] % 16) * 4), "=">>
    ELSE
        <<B64Char(b[1] \div 4),
          B64Char((b[1] % 4) * 16 + b[2] \div 16),
          B64Char((b[2] % 16) * 4 + b[3] \div 64),
          B64Char(b[3] % 64)>> \o b64encode_M(SubSeq(b, 4, Len(b)))

\* base64.b64encode: three bytes give four characters; a last group of one
\* or two bytes gives two or three characters padded with "=" to four
RECURSIVE b64encode(_)
b64encode(b) ==
    IF b = <<>> THEN <<>>
    ELSE IF Len(b) = 1 THEN
        <<B64Char(b[1] \div 4), B64Char((b[1] % 4) * 16), "=", "=">>
    ELSE IF Len(b) = 2 THEN
        <<B64Char(b[1] \div 4),
          B64Char((b[1] % 4) * 16 + b[2] \div 16),
          B64Char((b[2] % 16) * 4), "=">>
    ELSE
        <<B64Char(b[1] \div 4),
          B64Char((b[1] % 4) * 16 + b[2] \div 16),
          B64Char((b[2] % 16) * 4 + b[3] \div 64),
          B64Char(b[3] % 64)>> \o b64encode(SubSeq(b, 4, Len(b)))

\* base64.b64decode: four characters give three bytes, fewer when padded
RECURSIVE b64decode(_)
b64decode(s) ==
    IF Len(s) < 4 THEN <<>>
    ELSE LET c1 == B64Index(s[1])
             c2 == B64Index(s[2])
             rest == b64decode(SubSeq(s, 5, Len(s)))
         IN  IF s[3] = "=" THEN <<c1 * 4 + c2 \div 16>>
             ELSE LET c3 == B64Index(s[3]) IN
                  IF s[4] = "=" THEN
                      <<c1 * 4 + c2 \div 16, (c2 % 16) * 16 + c3 \div 4>>
                  ELSE
                      <<c1 * 4 + c2 \div 16, (c2 % 16) * 16 + c3 \div 4,
                        (c3 % 4) * 64 + B64Index(s[4])>> \o rest

S_b64 == <<";","b","a","s","e","6","4",",">>

\* line 23: f"data:{mime};base64,{b64}"
DataUri(mime, bytes) == S_data \o mime \o S_b64 \o b64encode(bytes)

\* to_data_uri returning the path it was given
to_data_uri_M(path) == path

\* lines 15-23: to_data_uri(path), defined when the file can be read
to_data_uri(path) == DataUri(GuessMime(path), ReadBytes(path))

\* the part of a data URI after ";base64,"
RECURSIVE Payload(_)
Payload(uri) ==
    IF uri = <<>> THEN <<>>
    ELSE IF StartsWith(uri, S_b64) THEN SubSeq(uri, Len(S_b64) + 1, Len(uri))
    ELSE Payload(Tail(uri))

(* ------------------------------ documents ----------------------------- *)

V_empty == <<>>
V_data == <<"d","a","t","a",":",",">>
V_http == <<"h","t","t","p",":","/","/","e">>
V_https == <<"h","t","t","p","s",":","/","/","e">>
V_a == <<"a",".","p","n","g">>
V_b == <<"x","/",".",".","/","b",".","j","p","g">>
V_c == <<".","/","c">>
V_f == <<"f",".","g","i","f">>
V_missing == <<"n","o",".","p","n","g">>
V_dir == <<"d">>

\* sample values of src: empty, already inlined, remote, existing files
\* (one reached through ".."), a missing file, a directory
SrcSamples == {V_empty, V_data, V_http, V_https, V_a, V_b, V_c, V_missing, V_dir}

\* sample values of data-full
FullSamples == {V_https, V_data, V_f, V_missing, V_dir}

\* src values that reach each of the four outcomes of a non-excluded src
SrcPivots == {V_a, V_https, V_missing, V_dir}

NoAttrs == [n \in {} |-> <<>>]

\* the <img> elements an input document is built from
Imgs ==
    {NoAttrs, "data-full" :> V_f, ("src" :> V_data) @@ ("data-full" :> V_f)}
    \cup {"src" :> s : s \in SrcSamples}
    \cup {("src" :> s) @@ ("data-full" :> f) : s \in SrcPivots, f \in FullSamples}

\* the input documents: up to MaxImgs <img> elements
Docs == UNION {[1..n -> Imgs] : n \in 0..MaxImgs}

\* img.get(name, default)
Get(img, name, default) == IF name \in DOMAIN img THEN img[name] ELSE default

\* img[name] = value
SetAttr(img, name, value) ==
    [n \in DOMAIN img \cup {name} |-> IF n = name THEN value ELSE img[n]]

(* ------------------------- the body of the loop ----------------------- *)

\* The outcome of a part of the loop body on one element: the element as it
\* leaves the part, what it adds to the two counters, the warnings it prints,
\* and whether it ended the iteration with `continue`.
Outcome(img, dChanged, dSkipped, warns, cont) ==
    [img |-> img, dChanged |-> dChanged, dSkipped |-> dSkipped,
     warns |-> warns, cont |-> cont]

\* an excluded src counted as skipped
SkipExcluded_M(img) == Outcome(img, 0, 1, <<>>, TRUE)

\* lines 49-50: no src, an empty src or a data: src
SkipExcluded(img) == Outcome(img, 0, 0, <<>>, TRUE)

\* a remote src that is not counted
SkipRemote_M(img) == Outcome(img, 0, 0, <<>>, TRUE)

\* lines 51-53: a remote src
SkipRemote(img) == Outcome(img, 0, 1, <<>>, TRUE)

\* a missing file skipped without its warning
SkipMissing_M(img, local_path) == Outcome(img, 0, 1, <<>>, TRUE)

\* lines 56-59: the resolved file does not exist
SkipMissing(img, local_path) ==
    Outcome(img, 0, 1, <<[kind |-> "missing", path |-> local_path]>>, TRUE)

\* an inlined src counted as skipped
Inline_M(img, local_path) ==
    Outcome(SetAttr(img, "src", to_data_uri(local_path)), 0, 1, <<>>, FALSE)

\* lines 60-62: to_data_uri returned
Inline(img, local_path) ==
    Outcome(SetAttr(img, "src", to_data_uri(local_path)), 1, 0, <<>>, FALSE)

\* a failed inlining that is not counted
InlineFailed_M(img, local_path) ==
    Outcome(img, 0, 0, <<[kind |-> "failed", path |-> local_path]>>, FALSE)

\* lines 60-65: to_data_uri raised
InlineFailed(img, local_path) ==
    Outcome(img, 0, 1, <<[kind |-> "failed", path |-> local_path]>>, FALSE)

\* lines 48-65: the src part of the loop body
SrcStep(img) ==
    LET src == Get(img, "src", <<>>)
        local_path == Resolve(src)
    IN  IF IsExcluded(src) THEN SkipExcluded(img)
        ELSE IF IsRemote(src) THEN SkipRemote(img)
        ELSE IF ~ Exists(local_path) THEN SkipMissing(img, local_path)
        ELSE IF CanRead(local_path) THEN Inline(img, local_path)
        ELSE InlineFailed(img, local_path)

\* lines 72-73: to_data_uri returned for data-full
InlineFull(img, full_path) ==
    Outcome(SetAttr(img, "data-full", to_data_uri(full_path)), 0, 0, <<>>, FALSE)

\* a failed data-full inlining counted as skipped
InlineFullFailed_M(img, full_path) ==
    Outcome(img, 0, 1, <<[kind |-> "failed-full", path |-> full_path]>>, FALSE)

\* lines 72-75: to_data_uri raised for data-full
InlineFullFailed(img, full_path) ==
    Outcome(img, 0, 0, <<[kind |-> "failed-full", path |-> full_path]>>, FALSE)

\* lines 68-75: the data-full part of the loop body
FullStep(img) ==
    LET data_full == Get(img, "data-full", <<>>)
        full_path == Resolve(data_full)
    IN  IF IsLocalFull(data_full) /\ Exists(full_path)
        THEN IF CanRead(full_path) THEN InlineFull(img, full_path)
             ELSE InlineFullFailed(img, full_path)
        ELSE Outcome(img, 0, 0, <<>>, FALSE)

\* lines 47-75: one iteration; the data-full part runs only when the src
\* part did not `continue`
Body(img) ==
    LET s == SrcStep(img) IN
    IF s.cont THEN s
    ELSE LET f == FullStep(s.img) IN
         Outcome(f.img, s.dChanged + f.dChanged, s.dSkipped + f.dSkipped,
                 s.warns \o f.warns, FALSE)

\* every element a pass can meet: those of the input documents, and those a
\* first pass leaves behind for a second one
SeenImgs == Imgs \cup {Body(img).img : img \in Imgs}

\* Body, tabulated once over the elements a pass can meet
BodyOf == [img \in SeenImgs |-> Body(img)]

(* ------------------------------ the program --------------------------- *)

\* the numbers of positional arguments a caller may pass
ArgCounts == 0..2

NoFile == [exists |-> FALSE, doc |-> <<>>]

Init ==
    /\ pc = "start"
    /\ argc \in ArgCounts
    /\ inExists \in BOOLEAN
    /\ html = <<>>
    /\ soup = <<>>
    /\ i = 0
    /\ changed = 0
    /\ skipped = 0
    /\ warnings = <<>>
    /\ outFile = NoFile
    /\ exitCode = -1
    /\ run = 1

\* the argument check off by one: len(sys.argv) < 2
CheckArgs_M ==
    /\ pc = "start"
    /\ IF argc < 1
       THEN pc' = "exited" /\ exitCode' = 1
       ELSE pc' = "checkInput" /\ exitCode' = exitCode
    /\ UNCHANGED <<argc, inExists, html, soup, i, changed, skipped, warnings,
                   outFile, run>>

\* lines 26-31: len(sys.argv) < 3 means fewer than two positional arguments
CheckArgs ==
    /\ pc = "start"
    /\ IF argc < 2
       THEN pc' = "exited" /\ exitCode' = 1
       ELSE pc' = "checkInput" /\ exitCode' = exitCode
    /\ UNCHANGED <<argc, inExists, html, soup, i, changed, skipped, warnings,
                   outFile, run>>

\* lines 33-35
CheckInput ==
    /\ pc = "checkInput"
    /\ IF ~ inExists
       THEN pc' = "exited" /\ exitCode' = 2
       ELSE pc' = "read" /\ exitCode' = exitCode
    /\ UNCHANGED <<argc, inExists, html, soup, i, changed, skipped, warnings,
                   outFile, run>>

\* lines 37-44: read and parse the input; the first run reads any document,
\* the second run reads the file the first run wrote
ReadParse ==
    /\ pc = "read"
    /\ IF run = 1 THEN html' \in Docs ELSE html' = outFile.doc
    /\ soup' = html'
    /\ i' = 1
    /\ changed' = 0
    /\ skipped' = 0
    /\ pc' = "loop"
    /\ UNCHANGED <<argc, inExists, warnings, outFile, exitCode, run>>

\* lines 47-75: one iteration of the loop over soup.find_all("img")
ProcessImg ==
    /\ pc = "loop"
    /\ i <= Len(soup)
    /\ LET o == BodyOf[soup[i]] IN
       /\ soup' = [soup EXCEPT ![i] = o.img]
       /\ changed' = changed + o.dChanged
       /\ skipped' = skipped + o.dSkipped
       /\ warnings' = warnings \o [k \in 1..Len(o.warns) |->
                         [run |-> run, img |-> i, kind |-> o.warns[k].kind,
                          path |-> o.warns[k].path]]
    /\ i' = i + 1
    /\ UNCHANGED <<pc, argc, inExists, html, outFile, exitCode, run>>

\* lines 80-84: the loop is over; write str(soup) and print the summary
WriteOutput ==
    /\ pc = "loop"
    /\ i > Len(soup)
    /\ outFile' = [exists |-> TRUE, doc |-> soup]
    /\ pc' = "done"
    /\ exitCode' = 0
    /\ UNCHANGED <<argc, inExists, html, soup, i, changed, skipped, warnings, run>>

\* line 80: open(out_path, "w") raises; the exception is not caught and the
\* interpreter ends with status 1
WriteFails ==
    /\ pc = "loop"
    /\ i > Len(soup)
    /\ pc' = "writeFailed"
    /\ exitCode' = 1
    /\ UNCHANGED <<argc, inExists, html, soup, i, changed, skipped, warnings,
                   outFile, run>>

\* the tool is run a second time, on the file the first run wrote
Rerun ==
    /\ pc = "done"
    /\ run = 1
    /\ run' = 2
    /\ pc' = "start"
    /\ argc' = 2
    /\ inExists' = outFile.exists
    /\ html' = <<>>
    /\ soup' = <<>>
    /\ i' = 0
    /\ changed' = 0
    /\ skipped' = 0
    /\ exitCode' = -1
    /\ UNCHANGED <<warnings, outFile>>

Next ==
    \/ CheckArgs
    \/ CheckInput
    \/ ReadParse
    \/ ProcessImg
    \/ WriteOutput
    \/ WriteFails
    \/ Rerun

Spec == Init /\ [][Next]_vars

\* the interpreter keeps executing a process that has a next statement: the
\* loop goes on to its next element, and past the last one the write is tried
FairSpec == Spec /\ WF_vars(ProcessImg) /\ WF_vars(WriteOutput \/ WriteFails)

(* ------------------------------- claims ------------------------------- *)

\* the loop is about to process element i
InLoop == pc = "loop" /\ i <= Len(soup)

\* the pass has started on a document
InPass == pc \in {"loop", "done", "writeFailed"}

SrcOf(img) == Get(img, "src", <<>>)

\* a src that is neither excluded nor remote: a candidate local reference
LocalSrc(src) == ~ IsExcluded(src) /\ ~ IsRemote(src)

\* the files of the disk that can be read
Readable == {p \in DOMAIN Disk : CanRead(p)}

\* the element leaves the iteration with the src attribute it entered with
SrcKept(before, after) ==
    /\ ("src" \in DOMAIN after) = ("src" \in DOMAIN before)
    /\ SrcOf(after) = SrcOf(before)

\* the iteration ended and the loop goes on with the next element
Continues == pc' = "loop" /\ i' = i + 1

\* C1: for every img whose data-full is non-empty, is not remote or data:,
\* and resolves to a readable file, the output data-full is the data URI of
\* that file, whatever happened to the src of the element.
C1_DataFullIndependent ==
    InPass =>
        \A j \in 1..Len(html) :
            (/\ j < i
             /\ "data-full" \in DOMAIN html[j]
             /\ IsLocalFull(html[j]["data-full"])
             /\ Resolve(html[j]["data-full"]) \in Readable)
            => /\ "data-full" \in DOMAIN soup[j]
               /\ soup[j]["data-full"] = to_data_uri(Resolve(html[j]["data-full"]))

\* C2: processing an img whose src starts with http:// or https:// leaves
\* the src as it was in the input, adds exactly 1 to skipped and leaves
\* changed alone.
C2_RemoteSrcKept ==
    [][(InLoop /\ IsRemote(SrcOf(html[i])))
        => /\ SrcKept(html[i], soup'[i])
           /\ skipped' = skipped + 1
           /\ changed' = changed]_vars

C2_Witness ==
    /\ InPass /\ run = 1 /\ i > 1
    /\ IsRemote(SrcOf(html[i - 1]))
    /\ skipped > 0

\* C3: processing an img whose src is a local reference to a readable file
\* sets src to data:<mime>;base64,<base64 of the bytes>, adds exactly 1 to
\* changed, leaves skipped alone, and decoding the payload gives the bytes.
C3_LocalSrcInlined ==
    [][(InLoop /\ LocalSrc(SrcOf(html[i])) /\ Resolve(SrcOf(html[i])) \in Readable)
        => LET path == Resolve(SrcOf(html[i]))
               out == SrcOf(soup'[i])
           IN  /\ "src" \in DOMAIN soup'[i]
               /\ out = S_data \o GuessMime(path) \o S_b64
                           \o b64encode(Disk[path].bytes)
               /\ b64decode(Payload(out)) = Disk[path].bytes
               /\ Len(Payload(out)) % 4 = 0
               /\ changed' = changed + 1
               /\ skipped' = skipped]_vars

C3_Witness ==
    /\ InPass /\ run = 1 /\ i > 1
    /\ LocalSrc(SrcOf(html[i - 1]))
    /\ Resolve(SrcOf(html[i - 1])) \in Readable
    /\ Len(Disk[Resolve(SrcOf(html[i - 1]))].bytes) % 3 = 1
    /\ changed > 0

\* C4: processing an img whose src is a local reference to a path that does
\* not exist leaves src alone, adds exactly 1 to skipped, leaves changed
\* alone, prints exactly one warning, which names the resolved path, and
\* the loop goes on.
C4_MissingSkipped ==
    [][(InLoop /\ LocalSrc(SrcOf(html[i])) /\ ~ Exists(Resolve(SrcOf(html[i]))))
        => /\ SrcKept(html[i], soup'[i])
           /\ skipped' = skipped + 1
           /\ changed' = changed
           /\ warnings' = Append(warnings,
                  [run |-> run, img |-> i, kind |-> "missing",
                   path |-> Resolve(SrcOf(html[i]))])
           /\ Continues]_vars

C4_Witness ==
    /\ InLoop /\ run = 1 /\ i > 1
    /\ LocalSrc(SrcOf(html[i - 1]))
    /\ ~ Exists(Resolve(SrcOf(html[i - 1])))
    /\ \E k \in 1..Len(warnings) : warnings[k].kind = "missing"

\* C5: processing an img whose src is absent, empty or starts with data:
\* changes neither counter, prints no warning and leaves src alone.
C5_ExcludedUntouched ==
    [][(InLoop /\ (SrcOf(html[i]) = <<>> \/ StartsWith(SrcOf(html[i]), S_data)))
        => /\ changed' = changed
           /\ skipped' = skipped
           /\ warnings' = warnings
           /\ SrcKept(html[i], soup'[i])]_vars

C5_Witness ==
    /\ InPass /\ run = 1 /\ i > 2
    /\ "src" \notin DOMAIN html[1]
    /\ StartsWith(SrcOf(html[i - 1]), S_data)

\* the first run printed no warning about a src
FirstRunInlinedAll ==
    \A k \in 1..Len(warnings) :
        warnings[k].run = 1 => warnings[k].kind \notin {"missing", "failed"}

\* C6: a second run on the output of a first run that inlined every local
\* src reports changed = 0 and leaves every src as the first run wrote it.
C6_Idempotent ==
    (run = 2 /\ InPass /\ FirstRunInlinedAll)
        => /\ changed = 0
           /\ \A j \in 1..Len(html) : j < i => SrcKept(html[j], soup[j])
           /\ pc = "done" =>
                  /\ Len(outFile.doc) = Len(html)
                  /\ \A j \in 1..Len(html) : SrcKept(html[j], outFile.doc[j])

C6_Witness ==
    /\ run = 2 /\ pc = "done" /\ FirstRunInlinedAll
    /\ Len(html) > 1
    /\ \E j \in 1..Len(html) : SrcOf(html[j]) \in {to_data_uri(p) : p \in Readable}
    /\ \E j \in 1..Len(html) : IsRemote(SrcOf(html[j]))

\* C7: with fewer than 2 positional arguments the run exits with code 1,
\* with a missing input it exits with code 2; the argument count is checked
\* first; no img is processed and the output file is not written.
C7_FatalPreconditions ==
    /\ (argc < 2 /\ pc # "start") => (pc = "exited" /\ exitCode = 1)
    /\ (argc >= 2 /\ ~ inExists /\ pc \notin {"start", "checkInput"})
           => (pc = "exited" /\ exitCode = 2)
    /\ pc = "exited"
           => /\ i = 0 /\ html = <<>> /\ soup = <<>>
              /\ changed = 0 /\ skipped = 0 /\ warnings = <<>>
              /\ outFile = NoFile

C7_Witness == pc = "exited" /\ argc < 2 /\ ~ inExists /\ exitCode = 1

\* C8: when reading or encoding the file of a src raises, src is left
\* alone, skipped grows by exactly 1, changed is left alone, a warning is
\* printed and the loop goes on; and every pass that has started reaches
\* the write, which, when it succeeds, ends the run with exit code 0 and the
\* document written.
C8_FailuresContained ==
    /\ [][(InLoop /\ LocalSrc(SrcOf(html[i]))
                  /\ Exists(Resolve(SrcOf(html[i])))
                  /\ Resolve(SrcOf(html[i])) \notin Readable)
           => /\ SrcKept(html[i], soup'[i])
              /\ skipped' = skipped + 1
              /\ changed' = changed
              /\ Len(warnings') > Len(warnings)
              /\ warnings'[Len(warnings) + 1] =
                     [run |-> run, img |-> i, kind |-> "failed",
                      path |-> Resolve(SrcOf(html[i]))]
              /\ Continues]_vars
    /\ (pc = "loop") ~> (pc = "done" \/ pc = "writeFailed")
    /\ [](pc = "done" => (exitCode = 0 /\ outFile = [exists |-> TRUE, doc |-> soup]
                          /\ i = Len(html) + 1))

C8_Witness ==
    /\ pc = "done" /\ run = 1 /\ exitCode = 0
    /\ \E k \in 1..Len(warnings) : warnings[k].kind = "failed"
    /\ changed > 0

\* what the src of an element alone adds to changed and to skipped
SrcChanged(src) ==
    IF LocalSrc(src) /\ Resolve(src) \in Readable THEN 1 ELSE 0

SrcSkipped(src) ==
    IF IsExcluded(src) \/ (LocalSrc(src) /\ Resolve(src) \in Readable) THEN 0 ELSE 1

\* C9: whatever the data-full of an element is, the counters after the
\* element depend on its src alone, the loop goes on, and a data-full whose
\* file cannot be read or encoded is left as it was.
C9_DataFullFrame ==
    [][InLoop
        => /\ changed' = changed + SrcChanged(SrcOf(html[i]))
           /\ skipped' = skipped + SrcSkipped(SrcOf(html[i]))
           /\ Continues
           /\ ("data-full" \in DOMAIN html[i]
                  /\ Resolve(html[i]["data-full"]) \notin Readable)
               => (/\ "data-full" \in DOMAIN soup'[i]
                   /\ soup'[i]["data-full"] = html[i]["data-full"])]_vars

C9_Witness ==
    /\ InPass /\ run = 1 /\ i > 2
    /\ \E k \in 1..Len(warnings) : warnings[k].kind = "failed-full"
    /\ \E j \in 1..(i - 1) :
          /\ "data-full" \in DOMAIN html[j]
          /\ soup[j]["data-full"] # html[j]["data-full"]

\* C10: at every point of the pass, changed + skipped is the number of
\* elements processed so far whose src is non-empty and does not start with
\* data:, and changed is the number of src attributes rewritten so far.
C10_CounterPartition ==
    InPass =>
        /\ changed + skipped =
              Cardinality({j \in 1..(i - 1) :
                  SrcOf(html[j]) # <<>> /\ ~ StartsWith(SrcOf(html[j]), S_data)})
        /\ changed =
              Cardinality({j \in 1..(i - 1) : SrcOf(soup[j]) # SrcOf(html[j])})
        /\ i <= Len(html) + 1
        /\ pc \in {"done", "writeFailed"} => i = Len(html) + 1

C10_Witness ==
    /\ pc = "done" /\ run = 1
    /\ changed > 0
    /\ changed + skipped < Len(html)

====
